---- MODULE Spec2Model ----
(***************************************************************************)
(* Model of the loan-processing workflow (src/workflow.py) and of the tool *)
(* server that drives it (src/server.py), for one application identifier.  *)
(*                                                                         *)
(* A workflow handler is a coroutine: it runs without interruption from    *)
(* one `await` to the next.  The state of an Update is therefore the line  *)
(* of the `await` it is parked on (L37, L44, L51, L54).  One step of the   *)
(* model is one workflow task: the handlers that the task's events make    *)
(* runnable run to their next await, then the wait conditions are          *)
(* re-evaluated (wait_released, run).  The Updates in flight form a bag:   *)
(* handlers are anonymous coroutines, two of them may be in the same       *)
(* position with the same captured arguments.                              *)
(***************************************************************************)
EXTENDS Integers, Sequences, FiniteSets, Bags, TLC

\* ---- bounds -------------------------------------------------------------
MaxUpdates == 2      \* Updates in flight at the same time
MaxBankTurns == 1    \* bank-account turns in the conversation context

\* ---- values -------------------------------------------------------------
None    == <<>>                  \* Python None / Optional without a value
Some(v) == <<v>>
Val(o)  == o[1]

Headers   == {"s", "absent"}     \* x-ms-client-session-id header, or none
Incomes   == {0, 1, 2}
Accounts  == {"acct"}
Decisions == {"approve", "reject"}
\* what one agent turn may return: output_type = [FinalResult, UnderwritingRecommendation]
Recommendations == {"review"}
FinalResults    == {"approved", "rejected"}
Outputs   == Recommendations \cup FinalResults
\* the outcomes of the agent call awaited at a line: the turns before the
\* human decision answer with a recommendation, the turn after it with a
\* final result; "error": the activity raised
ResultsAt(pc) ==
    (IF pc = "L54" THEN FinalResults ELSE Recommendations) \cup {"error"}

\* server._application_id_from_context
application_id_from_context(h) ==
    IF h = "absent" THEN None ELSE Some("APP_" \o h)

\* agent.LoanApplication: the constructor's field constraints
LoanApplication(id, income, amount, value) ==
    IF id # None /\ income > 0 /\ amount > 0 /\ value > 0
    THEN Some([application_id        |-> Val(id),
               annual_income         |-> income,
               requested_loan_amount |-> amount,
               property_value        |-> value])
    ELSE None                    \* pydantic ValidationError

\* LoanApplication.model_validate(payload) on a dumped application
model_validate(p) ==
    LoanApplication(Some(p.application_id), p.annual_income,
                    p.requested_loan_amount, p.property_value)

Response(tool, outcome, body) ==
    [tool |-> tool, status |-> outcome, body |-> body]

\* ---- the workflow instance ---------------------------------------------
\* LoanProcessingWorkflow.__init__
InitWf ==
    [application         |-> None,
     final_decision      |-> None,
     human_decision      |-> None,
     bank_account_number |-> None,
     message_history     |-> None]

\* the fields an Update handler assigns before its last await
Written(w) ==
    [application |-> w.application, message_history |-> w.message_history]

\* what an Update finds in those fields when it begins; kept with the
\* handler in the behaviours that record it (st.recording)
Began(st) == IF st.recording THEN Some(Written(st.wf)) ELSE None

\* an Update handler in flight: the Update it serves, the await it is
\* parked on, the agent call it awaits, and what the fields it assigns
\* held when it began
Handler(kind, pc, call, began) ==
    [kind |-> kind, pc |-> pc, call |-> call, began |-> began]

One(h) == SetToBag({h})

\* TemporalAgent.run(prompt, message_history=...): the outstanding activity
agent_run(prompt, message_history) ==
    Some([prompt |-> prompt, message_history |-> message_history])

\* result.all_messages(): the history the call was given, then this turn
all_messages(call, out) ==
    (IF call.message_history = None THEN <<>> ELSE Val(call.message_history))
        \o << [prompt |-> call.prompt, output |-> out] >>

Outstanding(h) == h.pc \in {"L37", "L44", "L54"}

\* the envelope a tool wraps a failed Update in (server lines 85-90, 109-114)
Failed(kind) ==
    IF kind = "start_processing"
    THEN Response("start_loan_application", "processing_failed", None)
    ELSE Response("supply_bank_account", "update_failed", None)

\* start_loan_application lines 84-92: the Update's result is validated as
\* an UnderwritingRecommendation before it is returned
start_reply(out) ==
    IF out \in Recommendations
    THEN Response("start_loan_application", "ok", Some(out))
    ELSE Failed("start_processing")

\* start_processing, up to its first await (line 37); a payload that does
\* not validate makes the handler raise before it stores anything
start_processing(st, payload) ==
    LET app == model_validate(payload) IN
    IF app = None
    THEN [st EXCEPT !.responses = @ \cup {Failed("start_processing")}]
    ELSE [st EXCEPT
            !.wf.application = app,
            !.upd = @ (+) One(Handler("start_processing", "L37",
                                agent_run(<<"application", Val(app)>>, None),
                                Began(st)))]

\* supply_bank_account, up to its first await (line 44)
supply_bank_account(st, account_number) ==
    [st EXCEPT
       !.upd = @ (+) One(Handler("supply_bank_account", "L44",
                           agent_run(<<"bank", account_number>>,
                                     st.wf.message_history),
                           Began(st)))]

\* the handler h resumes with the result of its outstanding activity and
\* runs to its next await or to its return
resume(st, h, out) ==
    LET call == Val(h.call) IN
    CASE h.pc = "L37" ->
           [st EXCEPT !.wf.message_history = Some(all_messages(call, out)),
                      !.upd = @ (-) One(h),
                      !.responses = @ \cup {start_reply(out)}]
      [] h.pc = "L44" ->
           [st EXCEPT !.wf.message_history = Some(all_messages(call, out)),
                      !.upd = (@ (-) One(h)) (+)
                          One([h EXCEPT !.pc = "L51", !.call = None]),
                      !.passed_early = @ \/ st.wf.human_decision # None]
      [] h.pc = "L54" ->
           [st EXCEPT !.wf.final_decision = Some(out),
                      !.final_writes = Append(st.final_writes, out),
                      !.upd = @ (-) One(h),
                      !.responses = @ \cup
                          {Response("supply_bank_account", "ok", Some(out))}]

\* the activity raised: the exception leaves the handler, the Update fails
raise(st, h) ==
    [st EXCEPT !.upd = @ (-) One(h),
               !.responses = @ \cup {Failed(h.kind)},
               !.raised = @ \cup (IF h.began = None THEN {} ELSE {Val(h.began)})]

\* receive_human_decision as it would be without a buffer: the decision is
\* handed to the Updates that wait for it and dropped when none does
receive_human_decision_unbuffered(st, decision) ==
    IF \E h \in BagToSet(st.upd) : h.pc = "L51"
    THEN [st EXCEPT !.wf.human_decision = Some(decision), !.signalled = TRUE]
    ELSE [st EXCEPT !.signalled = TRUE]

\* receive_human_decision
receive_human_decision(st, decision) ==
    [st EXCEPT !.wf.human_decision = Some(decision), !.signalled = TRUE]

\* supply_bank_account lines 51-57, for one handler parked on the wait: it
\* reads the decision and the context and issues its second agent call
second_call(h, w) ==
    [h EXCEPT !.pc = "L54",
              !.call = agent_run(<<"human", Val(w.human_decision)>>,
                                 w.message_history)]

RECURSIVE release(_, _, _)
release(B, hs, w) ==
    IF hs = {} THEN B
    ELSE LET h == CHOOSE x \in hs : TRUE
         IN  release((B (-) (h :> B[h])) (+) (second_call(h, w) :> B[h]),
                     hs \ {h}, w)

\* wait_released without the wait: the Updates go on to their second call
\* whether or not a decision has been recorded
wait_released_ungated(st) ==
    LET w == IF st.wf.human_decision = None
             THEN [st.wf EXCEPT !.human_decision = Some("None")]
             ELSE st.wf
    IN  [st EXCEPT !.upd = release(@, {h \in BagToSet(@) : h.pc = "L51"}, w)]

\* wait_released taking the decision out of the instance as the Updates
\* read it
wait_released_consuming(st) ==
    IF st.wf.human_decision # None
    THEN [st EXCEPT !.upd = release(@, {h \in BagToSet(@) : h.pc = "L51"}, st.wf),
                    !.wf.human_decision = None]
    ELSE st

\* every Update parked on the wait resumes once its condition holds
wait_released(st) ==
    IF st.wf.human_decision # None
    THEN [st EXCEPT !.upd = release(@, {h \in BagToSet(@) : h.pc = "L51"}, st.wf)]
    ELSE st

\* run with a wait that never ends: the execution stays open
run_pending(st) == st

\* run: returns once _final_decision is set, which closes the execution;
\* the Updates whose handlers have not returned by then fail
run(st) ==
    IF st.execution = "running" /\ st.wf.final_decision # None
    THEN [st EXCEPT
            !.execution = "closed",
            !.run_result = st.wf.final_decision,
            !.upd = EmptyBag,
            !.responses = @ \cup {Failed(h.kind) : h \in BagToSet(st.upd)}]
    ELSE st

\* the end of a workflow task: conditions are re-evaluated
WorkflowTask(st) == run(wait_released(st))

\* status answering with the latest recommendation of the conversation while
\* no final decision exists
status_recommendation(w) ==
    [ret |-> IF w.application = None
             THEN None
             ELSE Some([application_id |-> Val(w.application).application_id,
                        decision       |->
                            IF w.final_decision = None /\ w.message_history # None
                            THEN Some(Val(w.message_history)
                                        [Len(Val(w.message_history))].output)
                            ELSE w.final_decision]),
     wf  |-> w]

\* status taking the recorded human decision out of the instance as it
\* reports
status_consuming(w) ==
    [ret |-> IF w.application = None
             THEN None
             ELSE Some([application_id |-> Val(w.application).application_id,
                        decision       |-> w.final_decision]),
     wf  |-> [w EXCEPT !.human_decision = None]]

\* status (the Query handler): its return value and the instance it leaves
\* (ret = None: the handler raised AttributeError on the unset application)
status(w) ==
    [ret |-> IF w.application = None
             THEN None
             ELSE Some([application_id |-> Val(w.application).application_id,
                        decision       |-> w.final_decision]),
     wf  |-> w]

\* ---- state ---------------------------------------------------------------
VARIABLES
    wf,            \* fields of the current LoanProcessingWorkflow execution
    upd,           \* the bag of Update handlers in flight
    execution,     \* the latest execution for the application id: "none"
                   \* before the first start, then "running" or "closed"
    run_result,    \* what run() returned for the current execution
    signalled,     \* a signal has been delivered to the current execution
    final_writes,  \* values assigned to _final_decision, in order (line 58)
    responses,     \* what the server answered in the step just taken
    passed_early,  \* in the step just taken an Update reached its wait
                   \* (line 51) with the human decision already recorded
    raised,        \* for the Updates whose agent call raised in the step
                   \* just taken: what they had found when they began
    recording      \* whether handlers keep what they found when they began
                   \* (fixed for a behaviour)

vars == <<wf, upd, execution, run_result, signalled, final_writes, responses,
          passed_early, raised, recording>>

\* the state a step starts from: no answer given yet
State ==
    [wf |-> wf, upd |-> upd, execution |-> execution,
     run_result |-> run_result, signalled |-> signalled,
     final_writes |-> final_writes, responses |-> {}, passed_early |-> FALSE,
     raised |-> {}, recording |-> recording]

Becomes(st) ==
    /\ wf' = st.wf
    /\ upd' = st.upd
    /\ execution' = st.execution
    /\ run_result' = st.run_result
    /\ signalled' = st.signalled
    /\ final_writes' = st.final_writes
    /\ responses' = st.responses
    /\ passed_early' = st.passed_early
    /\ raised' = st.raised
    /\ recording' = st.recording

Reply(st, r) == [st EXCEPT !.responses = @ \cup {r}]

\* a new execution for the identifier (WithStartWorkflowOperation, when no
\* execution with that id is running)
NewExecution(st) ==
    [st EXCEPT !.wf = InitWf, !.execution = "running",
               !.run_result = None, !.signalled = FALSE,
               !.final_writes = <<>>]

\* the bank-account turns the conversation context holds
BankTurns(w) ==
    IF w.message_history = None THEN 0
    ELSE Cardinality({k \in DOMAIN Val(w.message_history) :
                         Val(w.message_history)[k].prompt[1] = "bank"})

InitInstance ==
    /\ wf = InitWf
    /\ upd = EmptyBag
    /\ execution = "none"
    /\ run_result = None
    /\ signalled = FALSE
    /\ final_writes = <<>>
    /\ responses = {}
    /\ passed_early = FALSE
    /\ raised = {}

Init == InitInstance /\ recording = FALSE

\* the same system, with every handler keeping what it found when it began
InitRecording == InitInstance /\ recording = TRUE

\* ---- server tools ---------------------------------------------------------
\* start_loan_application handing the arguments to the workflow as they
\* came, the workflow execution being started before anything validates them
start_loan_application_unvalidated(st, h, income) ==
    WorkflowTask(start_processing(
        IF st.execution = "running" THEN st ELSE NewExecution(st),
        [application_id        |-> h,
         annual_income         |-> income,
         requested_loan_amount |-> 1,
         property_value        |-> 1]))

\* start_loan_application: the LoanApplication is constructed first (line
\* 62, outside the try block: a ValidationError leaves the tool unhandled),
\* then the Update is sent, starting the workflow if none is running
start_loan_application(st, h, income) ==
    LET application == LoanApplication(application_id_from_context(h), income, 1, 1)
    IN  IF application = None
        THEN Reply(st, Response("start_loan_application", "unhandled", None))
        ELSE WorkflowTask(start_processing(
                 IF st.execution = "running" THEN st ELSE NewExecution(st),
                 Val(application)))

\* start_loan_application with arguments the LoanApplication constructor
\* rejects
StartLoanApplicationInvalid ==
    \E h \in Headers, i \in Incomes :
        /\ LoanApplication(application_id_from_context(h), i, 1, 1) = None
        /\ Becomes(start_loan_application(State, h, i))

\* start_loan_application with a valid application: update-with-start
StartLoanApplication ==
    \E h \in Headers, i \in Incomes :
        /\ BagCardinality(upd) < MaxUpdates
        /\ LoanApplication(application_id_from_context(h), i, 1, 1) # None
        /\ Becomes(start_loan_application(State, h, i))

\* supply_bank_account tool
SupplyBankAccount ==
    \E n \in Accounts :
        /\ BagCardinality(upd) < MaxUpdates
        /\ BankTurns(wf) < MaxBankTurns
        /\ IF execution = "running"
           THEN Becomes(WorkflowTask(supply_bank_account(State, n)))
           ELSE Becomes(Reply(State, Failed("supply_bank_account")))

\* the handlers with an agent call outstanding
Awaiting(st) == {h \in BagToSet(st.upd) : Outstanding(h)}

\* the states the handlers can leave the instance in when the results of
\* some of the outstanding agent calls reach them in one workflow task, one
\* handler resuming after the other, before the conditions are re-evaluated
RECURSIVE deliver(_)
deliver(st) ==
    {st} \cup UNION {
        deliver(resume(st, h, r)) :
            <<h, r>> \in UNION {{h} \X (ResultsAt(h.pc) \ {"error"}) :
                                  h \in Awaiting(st)} }

\* a workflow task that carries the results of one or more agent calls
ActivityReturns ==
    /\ execution = "running"
    /\ \E st \in deliver(State) \ {State} : Becomes(WorkflowTask(st))

\* a workflow task that carries the failure of an agent call.  It is a task
\* of its own: the handler it ends assigns nothing, so the same fields are
\* reached as when the failure shares a task with other results.
ActivityRaises ==
    /\ execution = "running"
    /\ \E h \in Awaiting(State) : Becomes(WorkflowTask(raise(State, h)))

ActivityResults == ActivityReturns \/ ActivityRaises

\* approve_application (GET /applications/{id}?action=...)
ApproveApplication ==
    \E d \in Decisions :
        IF execution = "running"
        THEN Becomes(Reply(WorkflowTask(receive_human_decision(State, d)),
                           Response("approve_application", "OK", None)))
        ELSE Becomes(Reply(State, Response("approve_application", "Error 500", None)))

\* approve_application without the action parameter (line 141, KeyError)
ApproveApplicationNoAction ==
    Becomes(Reply(State, Response("approve_application", "unhandled", None)))

\* get_application_status
GetApplicationStatus ==
    LET r == status(wf) IN
    IF execution = "none"        \* no execution with that id: the query raises
    THEN Becomes(Reply(State,
                       Response("get_application_status", "query_failed", None)))
    ELSE IF r.ret = None
    THEN Becomes(Reply([State EXCEPT !.wf = r.wf],
                       Response("get_application_status", "query_failed", None)))
    ELSE Becomes(Reply([State EXCEPT !.wf = r.wf],
                       Response("get_application_status", "ok", r.ret)))

\* the requests that reach the workflow service
Next ==
    \/ StartLoanApplication
    \/ SupplyBankAccount
    \/ ActivityResults
    \/ ApproveApplication
    \/ GetApplicationStatus

Spec == Init /\ [][Next]_vars

\* the same with the requests that fail in the tool before they reach it
ServerNext ==
    \/ Next
    \/ StartLoanApplicationInvalid
    \/ ApproveApplicationNoAction

ServerSpec == Init /\ [][ServerNext]_vars

RecordingSpec == InitRecording /\ [][Next]_vars

\* the requests that can change the instance, with the starts the
\* LoanApplication constructor rejects
ValidationNext ==
    \/ StartLoanApplication
    \/ StartLoanApplicationInvalid
    \/ SupplyBankAccount
    \/ ActivityResults
    \/ ApproveApplication

ValidationSpec == Init /\ [][ValidationNext]_vars

\* the human decision is delivered to the running execution
SignalDelivered ==
    /\ execution = "running"
    /\ \E s0 \in {State} :
       \E s1 \in {receive_human_decision(s0, d) : d \in Decisions} :
       \E s2 \in {wait_released(s1)} :
       \E s3 \in {run(s2)} :
          Becomes(Reply(s3, Response("approve_application", "OK", None)))

\* a workflow task in which the agent call awaited at line pc returns its
\* result to an Update
CallReturns(pc) ==
    /\ execution = "running"
    /\ \E s0 \in {State} :
       \E h \in {x \in Awaiting(s0) : x.pc = pc} :
       \E s1 \in {resume(s0, h, r) : r \in ResultsAt(pc) \ {"error"}} :
       \E s2 \in {wait_released(s1)} :
       \E s3 \in {run(s2)} :
          Becomes(s3)

\* the first and the second agent call of a supply_bank_account Update
FirstCallReturns == CallReturns("L44")

SecondCallReturns == CallReturns("L54")

\* the requests and the workflow tasks when no agent call fails
LiveNext ==
    \/ StartLoanApplication
    \/ SupplyBankAccount
    \/ ActivityReturns
    \/ ApproveApplication

\* the system with what its environment is assumed to do in the end: the
\* agent calls succeed and their results reach the Updates that await them,
\* and the underwriter's decision is delivered
LiveSpec ==
    /\ Init /\ [][LiveNext]_vars
    /\ WF_vars(SignalDelivered)
    /\ WF_vars(FirstCallReturns)
    /\ WF_vars(SecondCallReturns)

TypeOK ==
    /\ execution \in {"none", "running", "closed"}
    /\ BankTurns(wf) <= MaxBankTurns
    /\ IsABag(upd)
    /\ BagCardinality(upd) <= MaxUpdates
    /\ \A h \in BagToSet(upd) : h.pc \in {"L37", "L44", "L51", "L54"}
\* ---- properties ------------------------------------------------------------
Handlers == BagToSet(upd)

AtLine(l) == {h \in Handlers : h.pc = l}

QueryResponses == {r \in responses : r.tool = "get_application_status"}

\* the recommendation of the last turn of the conversation context
LastRecommendation ==
    IF wf.message_history = None \/ Val(wf.message_history) = <<>>
    THEN None
    ELSE Some(Val(wf.message_history)[Len(Val(wf.message_history))].output)

\* C1: a human decision delivered to the execution before an Update reaches
\* its wait is kept: no Update is left parked on the wait once a signal has
\* been delivered, and an Update that reaches the wait with the decision
\* recorded goes straight on to the call that folds that decision in.
C1_SignalBuffered ==
    /\ signalled => AtLine("L51") = {}
    /\ (passed_early /\ execution = "running") =>
          \E h \in AtLine("L54") :
              Val(h.call).prompt = <<"human", Val(wf.human_decision)>>

C1_Witness == passed_early /\ execution = "running" /\ AtLine("L54") # {}

\* the agent calls outstanding: the handlers in flight that are not parked
\* on the human-decision wait
CallsOutstanding ==
    BagCardinality(upd)
        - BagCardinality([h \in {x \in BagToSet(upd) : x.pc = "L51"} |-> upd[h]])

\* C2: at most one Update of the execution has an agent call outstanding.
C2_Serialized == CallsOutstanding <= 1

\* C3: the final decision is set, run() has returned, or supply_bank_account
\* has returned or issued its final call, only if a human decision was
\* signalled to the execution.
C3_HumanGate ==
    (\/ wf.final_decision # None
     \/ run_result # None
     \/ AtLine("L54") # {}
     \/ \E r \in responses : r.tool = "supply_bank_account" /\ r.status = "ok")
        => signalled /\ wf.human_decision # None

C3_Witness == run_result # None /\ signalled /\ execution = "closed"

\* C4: no step starts a workflow execution for the application identifier
\* when there has been one already.
C4_OneInstance ==
    [][execution = "closed" => execution' # "running"]_vars

\* C5: a start_loan_application issued once the final decision exists leaves
\* the instance as it is and issues no agent call.
C5_NoRestart ==
    [][(wf.final_decision # None /\ StartLoanApplication)
          => (wf' = wf /\ upd' = upd /\ execution' = execution)]_vars

\* C6: every assignment to the final decision of an execution assigns the
\* value the first one assigned.
C6_FinalImmutable ==
    \A i, j \in DOMAIN final_writes : final_writes[i] = final_writes[j]

\* C7: once an Update has read the recorded human decision into its final
\* call, no later step of the running execution replaces the recorded
\* decision.
C7_AppliedOnce ==
    [][(execution = "running" /\ AtLine("L54") # {}) =>
          wf'.human_decision = wf.human_decision]_vars

\* C8 (as stated): a status query answered while an Update is parked on the
\* human-decision wait returns the latest recommendation.
C8_QueryReturnsRecommendation ==
    (QueryResponses # {} /\ AtLine("L51") # {}) =>
        \A r \in QueryResponses :
            r.status = "ok" /\ Val(r.body).decision = LastRecommendation

\* C8 (amended): a status query answered while an Update is parked on the
\* human-decision wait succeeds with the application id and a null decision.
C8_QueryWhileSuspended ==
    (QueryResponses # {} /\ AtLine("L51") # {}) =>
        responses = {Response("get_application_status", "ok",
                        Some([application_id |-> Val(wf.application).application_id,
                              decision |-> None]))}

C8_Witness ==
    /\ QueryResponses # {}
    /\ AtLine("L51") # {}
    /\ LastRecommendation # None

\* C9: a status query answered before any application has been recorded
\* does not fail.
C9_QueryBeforeStart ==
    (QueryResponses # {} /\ (execution = "none" \/ wf.application = None)) =>
        \A r \in QueryResponses : r.status = "ok"

\* C10: a get_application_status step changes nothing of the execution: not
\* its fields, not the Updates in flight and their outstanding calls, not
\* run()'s result.
C10_QueryReadOnly ==
    [][GetApplicationStatus =>
          /\ wf' = wf
          /\ upd' = upd
          /\ execution' = execution
          /\ run_result' = run_result
          /\ final_writes' = final_writes]_vars

C10_Witness ==
    /\ QueryResponses # {}
    /\ \E h \in Handlers : Outstanding(h)
    /\ wf.human_decision # None

\* C11: when the agent call of an Update raises, the Update fails and the
\* fields an Update assigns (the application, the conversation context) hold
\* what they held when that Update began.
C11_FailurePreservesState ==
    \A b \in raised :
        /\ \E r \in responses : r.status \in {"processing_failed", "update_failed"}
        /\ execution = "running" => Written(wf) = b

\* C12: a start_loan_application whose arguments fail the application's
\* validation answers with no success payload, starts no workflow execution
\* and leaves the instance, its stored application and its Updates as they
\* were.
C12_ValidationCreatesNothing ==
    [][((\E r \in responses' : r.tool = "start_loan_application")
            /\ StartLoanApplicationInvalid) =>
          /\ \A r \in responses' : r.status # "ok"
          /\ execution' = execution
          /\ wf' = wf
          /\ upd' = upd
          /\ run_result' = run_result]_vars

C12_Witness ==
    /\ \E r \in responses :
          r.tool = "start_loan_application" /\ r.status = "unhandled"
    /\ execution = "running"
    /\ wf.application # None

\* C13: whatever a tool or the approval route was given, it answered with a
\* success payload or with a failure it had caught and wrapped; no exception
\* left it unhandled.
C13_NoUnhandledFault ==
    \A r \in responses : r.status # "unhandled"

\* C14: a human decision sent while no workflow execution exists for the
\* identifier changes nothing and is answered as a delivered one is, with no
\* error.
C14_SignalDropped ==
    (execution = "none" /\ \E r \in responses : r.tool = "approve_application") =>
        /\ wf = InitWf /\ upd = EmptyBag
        /\ \A r \in responses : r.status = "OK"

SupplyInFlight ==
    execution = "running" /\ \E h \in Handlers : h.kind = "supply_bank_account"

Finalized ==
    /\ execution = "closed"
    /\ wf.final_decision # None
    /\ run_result = wf.final_decision

\* C15: while a supply_bank_account Update is parked on the wait the human
\* decision can be delivered; and, the decision being delivered and the agent
\* calls succeeding, a supply_bank_account Update in flight leads to the
\* final decision being set and run() returning it.
C15_Progress ==
    /\ []((execution = "running" /\ AtLine("L51") # {}) => ENABLED SignalDelivered)
    /\ SupplyInFlight ~> Finalized

C15_Witness ==
    /\ Finalized
    /\ signalled
    /\ \E r \in responses :
          r.tool = "supply_bank_account" /\ r.status = "ok" /\ r.body = run_result

\* C17: within an execution, every step leaves the conversation context
\* with the context it had before the step as a prefix.
C17_ContextAppendOnly ==
    [][(execution = "running" /\ wf.message_history # None) =>
          /\ wf'.message_history # None
          /\ Len(Val(wf'.message_history)) >= Len(Val(wf.message_history))
          /\ SubSeq(Val(wf'.message_history), 1, Len(Val(wf.message_history)))
                 = Val(wf.message_history)]_vars

\* C18: once a start_processing has recorded the application and returned
\* its recommendation, no step of that execution changes the stored
\* application.
C18_ApplicationImmutable ==
    [][(execution = "running" /\ wf.application # None
            /\ wf.message_history # None) =>
          wf'.application = wf.application]_vars

\* C19: once a signal has been delivered to an execution its human decision
\* is recorded in every later state, and only the delivery of a signal
\* changes it; from then on no Update is left parked on the wait, and an
\* Update that reaches the wait issues its second call with the decision
\* recorded at that time.
C19_DecisionKept ==
    /\ [](signalled => wf.human_decision # None)
    /\ [][(signalled /\ execution = "running"
               /\ wf'.human_decision # wf.human_decision) => ApproveApplication]_vars
    /\ []((signalled /\ execution = "running") =>
             /\ AtLine("L51") = {}
             /\ passed_early =>
                   \E h \in AtLine("L54") :
                       /\ Val(h.call).prompt = <<"human", Val(wf.human_decision)>>
                       /\ Val(h.call).message_history = wf.message_history)

C19_Witness ==
    /\ passed_early
    /\ signalled
    /\ execution = "running"
    /\ wf.human_decision = Some("reject")
    /\ BankTurns(wf) >= 1
    /\ \E h \in AtLine("L54") : Val(h.call).prompt = <<"human", "reject">>
====
